---- MODULE Spec2Model ----
(***************************************************************************)
(* Cloudflare KV tool server (src/src/cloudflare/index.ts).                *)
(*                                                                         *)
(* The CallTool dispatcher and its four API handlers as a state machine.   *)
(* A handler is an async function: it runs synchronously up to an await    *)
(* (fetch, response.text(), response.json()) and resumes when the awaited  *)
(* promise settles.  Each in-flight invocation occupies a slot; its locals *)
(* are the slot's entries of request, response and pc.                     *)
(*                                                                         *)
(* A JavaScript string is a sequence of atoms (characters, or a literal    *)
(* of the source kept whole); concatenation is \o.  An optional value is   *)
(* <<>> (undefined) or <<v>>.                                              *)
(***************************************************************************)
EXTENDS Integers, Sequences, FiniteSets, TLC

VARIABLES
    config,     \* the module-level config object
    pc,         \* per slot: "idle", "fetching", "reading" or "done"
    request,    \* per slot: the request.params of the invocation
    sent,       \* per slot: the HTTP requests the invocation has issued, in order
    net,        \* per slot: the settlement of the pending fetch, once the provider/network decided it
    response,   \* per slot: what the handler's await fetch(...) yielded
    accessed,   \* per slot: the parts of the response the handler has read
    thrown,     \* per slot: the exception raised inside the try block, if any
    result      \* per slot: the settlements of the handler's promise, in order

vars == <<config, pc, request, sent, net, response, accessed, thrown, result>>

\* ------------------------------------------------------------ bounds
MaxInFlight == 2
MaxResultLen == 2
MaxErrors == 2

\* ------------------------------------------------------------ values
None == <<>>
Some(v) == <<v>>
Lit(s) == <<s>>

SeqsUpTo(S, n) == UNION {[1..k -> S] : k \in 0..n}

DigitChars == <<"0", "1", "2", "3", "4", "5", "6", "7", "8", "9">>

RECURSIVE NumToStr(_)
NumToStr(n) ==
    IF n < 10 THEN <<DigitChars[n + 1]>>
    ELSE NumToStr(n \div 10) \o <<DigitChars[(n % 10) + 1]>>

\* `${x}` for a string that may be undefined
TemplateStr(opt) == IF opt = None THEN Lit("undefined") ELSE opt[1]

\* JavaScript truthiness of an optional string / an optional number
TruthyStr(opt) == opt # None /\ opt[1] # <<>>
TruthyNum(opt) == opt # None /\ opt[1] # 0

RECURSIVE Join(_, _)
Join(parts, sep) ==
    IF parts = <<>> THEN <<>>
    ELSE IF Len(parts) = 1 THEN parts[1]
    ELSE parts[1] \o sep \o Join(Tail(parts), sep)

\* ------------------------------------------------------------ tool registry
KV_TOOLS == <<"kv_get", "kv_put", "kv_delete", "kv_list">>

KnownTool(name) == \E i \in 1..Len(KV_TOOLS) : KV_TOOLS[i] = name

\* ------------------------------------------------------------ envelopes
TextEnvelope(text, isError) ==
    [toolResult |-> [content |-> <<[type |-> "text", text |-> text]>>,
                     isError |-> isError]]

\* completion of a piece of code inside the try block
Return(env) == [type |-> "return", value |-> env]
Throw(err) == [type |-> "throw", value |-> err]
NoCompletion == [type |-> "none", value |-> <<>>]

\* thrown values: an Error object (name, message) or any other value
ErrorObject(name, message) ==
    [kind |-> "Error", name |-> name, message |-> message, value |-> <<>>]
OtherThrown(str) ==
    [kind |-> "other", name |-> "", message |-> <<>>, value |-> str]

\* String(error)
StringOf(err) ==
    IF err.kind = "Error" THEN Lit(err.name) \o Lit(": ") \o err.message
    ELSE err.value

\* one step of a handler: where it stops, the fetch it issues, how it
\* completes, and what it read of the response on the way
Step(next, fetch, completion, reads) ==
    [next |-> next, fetch |-> fetch, completion |-> completion, reads |-> reads]

\* ------------------------------------------------------------ config
getConfig(env) ==
    [accountId |-> env.CLOUDFLARE_ACCOUNT_ID,
     apiToken |-> env.CLOUDFLARE_API_TOKEN,
     namespaceId |-> env.CLOUDFLARE_KV_NAMESPACE_ID]

\* ------------------------------------------------------------ outbound requests
NamespaceUrl(cfg) ==
    Lit("https://api.cloudflare.com/client/v4/accounts/")
        \o TemplateStr(cfg.accountId)
        \o Lit("/storage/kv/namespaces/")
        \o TemplateStr(cfg.namespaceId)

ValuesUrl(cfg, key) == NamespaceUrl(cfg) \o Lit("/values/") \o TemplateStr(key)

Bearer(cfg) == Lit("Bearer ") \o TemplateStr(cfg.apiToken)

\* application/x-www-form-urlencoded serialisation of one atom
FormEncode(ch) ==
    CASE ch = " " -> "+"
      [] ch = "/" -> "%2F"
      [] ch = "&" -> "%26"
      [] ch = "=" -> "%3D"
      [] ch = "?" -> "%3F"
      [] OTHER -> ch

FormEncodeStr(s) == [i \in 1..Len(s) |-> FormEncode(s[i])]

\* URLSearchParams.toString(): params is a sequence of <<name, value>>
ParamsToString(params) ==
    Join([i \in 1..Len(params) |->
            Lit(params[i][1]) \o Lit("=") \o FormEncodeStr(params[i][2])],
         Lit("&"))

\* what node-fetch puts on the wire for fetch(url, init): the method (GET by
\* default), the url, the headers and the body; no other member of init is read
Transmit(call) ==
    [method |-> IF call.init.method = None THEN "GET" ELSE call.init.method[1],
     url |-> call.url,
     headers |-> call.init.headers,
     body |-> call.init.body]

\* ------------------------------------------------------------ handleGet
handleGetFetch(cfg, key) ==
    [url |-> ValuesUrl(cfg, key),
     init |-> [method |-> None,
               headers |-> [Authorization |-> Bearer(cfg), ContentType |-> None],
               body |-> None,
               query |-> None]]

\* faulty variant: the get handler fetches again after a failed response
handleGetResponseRetry(resp) ==
    IF ~resp.ok
    THEN Step("fetching", Some(handleGetFetch(config, None)), NoCompletion, {"ok"})
    ELSE Step("reading", None, NoCompletion, {"ok", "body"})

handleGetResponse(resp) ==
    IF ~resp.ok
    THEN Step("done", None,
              Return(TextEnvelope(Lit("Failed to get value: ") \o resp.statusText, TRUE)),
              {"ok", "statusText"})
    ELSE Step("reading", None, NoCompletion, {"ok", "body"})

\* ------------------------------------------------------------ handlePut
handlePutFetch(cfg, key, value, expirationTtl) ==
    [url |-> ValuesUrl(cfg, key),
     init |-> [method |-> Some("PUT"),
               headers |-> [Authorization |-> Bearer(cfg),
                            ContentType |-> Some(Lit("text/plain"))],
               body |-> value,
               query |-> IF TruthyNum(expirationTtl)
                         THEN Some([expiration_ttl |-> expirationTtl[1]])
                         ELSE None]]

handlePutResponse(key, resp) ==
    IF ~resp.ok
    THEN Step("done", None,
              Return(TextEnvelope(Lit("Failed to put value: ") \o resp.statusText, TRUE)),
              {"ok", "statusText"})
    ELSE Step("done", None,
              Return(TextEnvelope(Lit("Successfully stored value for key: ")
                                      \o TemplateStr(key), FALSE)),
              {"ok"})

\* ------------------------------------------------------------ handleDelete
handleDeleteFetch(cfg, key) ==
    [url |-> ValuesUrl(cfg, key),
     init |-> [method |-> Some("DELETE"),
               headers |-> [Authorization |-> Bearer(cfg), ContentType |-> None],
               body |-> None,
               query |-> None]]

\* faulty variant: the delete handler does not look at response.ok
handleDeleteResponseIgnoreOk(key, resp) ==
    Step("done", None,
         Return(TextEnvelope(Lit("Successfully deleted key: ") \o TemplateStr(key), FALSE)),
         {})

handleDeleteResponse(key, resp) ==
    IF ~resp.ok
    THEN Step("done", None,
              Return(TextEnvelope(Lit("Failed to delete key: ") \o resp.statusText, TRUE)),
              {"ok", "statusText"})
    ELSE Step("done", None,
              Return(TextEnvelope(Lit("Successfully deleted key: ")
                                      \o TemplateStr(key), FALSE)),
              {"ok"})

\* ------------------------------------------------------------ handleList
ListParams(prefix, limit) ==
    (IF TruthyStr(prefix) THEN <<<<"prefix", prefix[1]>>>> ELSE <<>>)
        \o (IF TruthyNum(limit) THEN <<<<"limit", NumToStr(limit[1])>>>> ELSE <<>>)

handleListFetch(cfg, prefix, limit) ==
    [url |-> NamespaceUrl(cfg) \o Lit("/keys") \o Lit("?")
                \o ParamsToString(ListParams(prefix, limit)),
     init |-> [method |-> None,
               headers |-> [Authorization |-> Bearer(cfg), ContentType |-> None],
               body |-> None,
               query |-> None]]

\* faulty variant: the list handler parses the body before looking at response.ok
handleListResponseParseFirst(resp) ==
    Step("reading", None, NoCompletion, {"body"})

handleListResponse(resp) ==
    IF ~resp.ok
    THEN Step("done", None,
              Return(TextEnvelope(Lit("Failed to list keys: ") \o resp.statusText, TRUE)),
              {"ok", "statusText"})
    ELSE Step("reading", None, NoCompletion, {"ok", "body"})

\* response.text() in handleGet, and the return that follows it
handleGetBody(body) ==
    IF body.kind = "broken"
    THEN Step("done", None, Throw(ErrorObject("FetchError", body.fault)), {})
    ELSE Step("done", None, Return(TextEnvelope(body.text, FALSE)), {})

\* Array.prototype.join's conversion of one element of data.errors
ElementToString(e) ==
    IF e.kind = "string" THEN e.message ELSE Lit("[object Object]")

\* JSON.stringify of a string: quoted, with quote and backslash escaped
JsonEscape(ch) ==
    CASE ch = "\"" -> <<"\\", "\"">>
      [] ch = "\\" -> <<"\\", "\\">>
      [] OTHER -> <<ch>>

JsonQuote(s) ==
    Lit("\"") \o Join([i \in 1..Len(s) |-> JsonEscape(s[i])], <<>>) \o Lit("\"")

\* faulty variant: JSON.stringify(keys), without indentation
JsonStringifyCompact(keys) ==
    Lit("[") \o Join([i \in 1..Len(keys) |-> JsonQuote(keys[i])], Lit(",")) \o Lit("]")

\* JSON.stringify(keys, null, 2) of an array of strings
JsonStringifyPretty(keys) ==
    IF keys = <<>> THEN Lit("[]")
    ELSE Lit("[") \o Lit("\n") \o Lit("  ")
            \o Join([i \in 1..Len(keys) |-> JsonQuote(keys[i])],
                    Lit(",") \o Lit("\n") \o Lit("  "))
            \o Lit("\n") \o Lit("]")

\* response.json() in handleList, and everything after it
handleListBody(body) ==
    IF body.kind = "broken"
    THEN Step("done", None, Throw(ErrorObject("FetchError", body.fault)), {})
    ELSE IF body.kind = "text"
    THEN Step("done", None,
              Throw(ErrorObject("SyntaxError", Lit("Unexpected token in JSON"))), {})
    ELSE IF ~body.data.success
    THEN IF body.data.errors = None
         THEN Step("done", None,
                   Throw(ErrorObject("TypeError",
                       Lit("Cannot read properties of undefined (reading 'join')"))),
                   {"success", "errors"})
         ELSE Step("done", None,
                   Return(TextEnvelope(
                       Lit("Failed to list keys: ")
                           \o Join([i \in 1..Len(body.data.errors[1]) |->
                                       ElementToString(body.data.errors[1][i])],
                                   Lit(", ")),
                       TRUE)),
                   {"success", "errors"})
    ELSE IF body.data.result = None
    THEN Step("done", None,
              Throw(ErrorObject("TypeError",
                  Lit("Cannot read properties of undefined (reading 'map')"))),
              {"success", "result"})
    ELSE Step("done", None,
              Return(TextEnvelope(
                  JsonStringifyPretty([i \in 1..Len(body.data.result[1]) |->
                                          body.data.result[1][i].name]),
                  FALSE)),
              {"success", "result"})

\* ------------------------------------------------------------ CallTool handler
\* the first property of the destructuring pattern of each case
FirstProperty(name) == IF name = "kv_list" THEN "prefix" ELSE "key"

DestructureError(name) ==
    ErrorObject("TypeError",
        Lit("Cannot destructure property '") \o Lit(FirstProperty(name))
            \o Lit("' of 'request.params.arguments' as it is undefined."))

\* faulty variant: the arguments are destructured before the switch on the name
CallToolArgsFirst(req, cfg) ==
    IF req.arguments = None
    THEN Step("done", None, Throw(DestructureError(req.name)), {})
    ELSE IF ~KnownTool(req.name)
    THEN Step("done", None,
              Return(TextEnvelope(Lit("Unknown tool: ") \o Lit(req.name), TRUE)), {})
    ELSE Step("fetching",
              Some(IF req.name = "kv_list"
                   THEN handleListFetch(cfg, req.arguments[1].prefix, req.arguments[1].limit)
                   ELSE handleGetFetch(cfg, req.arguments[1].key)),
              NoCompletion, {})

\* the switch, up to the handler's await fetch(...)
CallTool(req, cfg) ==
    IF ~KnownTool(req.name)
    THEN Step("done", None,
              Return(TextEnvelope(Lit("Unknown tool: ") \o Lit(req.name), TRUE)), {})
    ELSE IF req.arguments = None
    THEN Step("done", None, Throw(DestructureError(req.name)), {})
    ELSE LET args == req.arguments[1] IN
         Step("fetching",
              Some(CASE req.name = "kv_get" -> handleGetFetch(cfg, args.key)
                     [] req.name = "kv_put" ->
                            handlePutFetch(cfg, args.key, args.value, args.expirationTtl)
                     [] req.name = "kv_delete" -> handleDeleteFetch(cfg, args.key)
                     [] OTHER -> handleListFetch(cfg, args.prefix, args.limit)),
              NoCompletion, {})

\* the handler resumed after await fetch(...) settled with out
OnFetch(req, out) ==
    IF out.kind = "rejected"
    THEN Step("done", None, Throw(out.error), {})
    ELSE CASE req.name = "kv_get" -> handleGetResponse(out.response)
           [] req.name = "kv_put" -> handlePutResponse(req.arguments[1].key, out.response)
           [] req.name = "kv_delete" -> handleDeleteResponse(req.arguments[1].key, out.response)
           [] OTHER -> handleListResponse(out.response)

\* the handler resumed after the body promise settled
OnBody(req, resp) ==
    IF req.name = "kv_get" THEN handleGetBody(resp.body) ELSE handleListBody(resp.body)

\* the catch clause of the handler
CatchEnvelope(error) ==
    TextEnvelope(Lit("Error: ")
                     \o (IF error.kind = "Error" THEN error.message ELSE StringOf(error)),
                 TRUE)

\* faulty variant: no catch clause, a throw rejects the handler's promise
HandlerSettleNoCatch(completion) ==
    IF completion.type = "throw"
    THEN [state |-> "rejected", value |-> completion.value]
    ELSE [state |-> "fulfilled", value |-> completion.value]

\* try { ... } catch (error) { ... }: how the async handler's promise settles
HandlerSettle(completion) ==
    IF completion.type = "throw"
    THEN [state |-> "fulfilled", value |-> CatchEnvelope(completion.value)]
    ELSE [state |-> "fulfilled", value |-> completion.value]

\* ------------------------------------------------------------ the provider and the network
NoData == [success |-> FALSE, errors |-> None, result |-> None]

BrokenBody(fault) == [kind |-> "broken", text |-> <<>>, data |-> NoData, fault |-> fault]
TextBody(text) == [kind |-> "text", text |-> text, data |-> NoData, fault |-> <<>>]
JsonBody(data) == [kind |-> "json", text |-> <<>>, data |-> data, fault |-> <<>>]

NoError == OtherThrown(<<>>)
NoResponse == [ok |-> FALSE, statusText |-> <<>>, body |-> TextBody(<<>>)]

Rejected(err) == [kind |-> "rejected", error |-> err, response |-> NoResponse]
Fulfilled(resp) == [kind |-> "fulfilled", error |-> NoError, response |-> resp]

\* elements of the errors array of a list response
ErrorEntries ==
    {[kind |-> "string", message |-> Lit("bad namespace"), code |-> 0],
     [kind |-> "object", message |-> Lit("Authentication error"), code |-> 10000]}

\* elements of the result array of a list response
KeyEntries ==
    {[name |-> <<"a">>, expiration |-> None, metadata |-> None],
     [name |-> <<"b">>, expiration |-> Some(60), metadata |-> None],
     [name |-> <<"q", "\"", "\\">>, expiration |-> None, metadata |-> Some("m")]}

ListDocuments ==
    {[success |-> FALSE, errors |-> e, result |-> None] :
        e \in {None} \cup {Some(x) : x \in SeqsUpTo(ErrorEntries, MaxErrors)}}
    \cup
    {[success |-> TRUE, errors |-> Some(<<>>), result |-> r] :
        r \in {None} \cup {Some(x) : x \in SeqsUpTo(KeyEntries, MaxResultLen)}}

Bodies ==
    {BrokenBody(Lit("Premature close")), TextBody(<<"v">>), TextBody(<<>>)}
    \cup {JsonBody(d) : d \in ListDocuments}

Outcomes ==
    {Rejected(ErrorObject("FetchError", Lit("request failed, reason: ECONNRESET"))),
     Rejected(OtherThrown(Lit("aborted")))}
    \cup {Fulfilled([ok |-> FALSE, statusText |-> t, body |-> TextBody(<<>>)]) :
            t \in {Lit("Not Found"), <<>>}}
    \cup {Fulfilled([ok |-> TRUE, statusText |-> Lit("OK"), body |-> b]) : b \in Bodies}

\* ------------------------------------------------------------ callers
EmptyArgs ==
    [key |-> None, value |-> None, expirationTtl |-> None, prefix |-> None, limit |-> None]

ArgsFor(name) ==
    CASE name \in {"kv_get", "kv_delete"} ->
            {[EmptyArgs EXCEPT !.key = k] : k \in {None, Some(<<"k">>)}}
      [] name = "kv_put" ->
            {[EmptyArgs EXCEPT !.key = k, !.value = v, !.expirationTtl = t] :
                k \in {None, Some(<<"k">>)},
                v \in {None, Some(<<"v">>)},
                t \in {None, Some(0), Some(60)}}
      [] name = "kv_list" ->
            {[EmptyArgs EXCEPT !.prefix = p, !.limit = l] :
                p \in {None, Some(<<>>), Some(<<"a", "/">>)},
                l \in {None, Some(0), Some(10)}}
      [] OTHER -> {EmptyArgs}

ToolNames == {"kv_get", "kv_put", "kv_delete", "kv_list", "kv_scan"}

Requests ==
    UNION {{[name |-> n, arguments |-> a] :
                a \in {None} \cup {Some(x) : x \in ArgsFor(n)}} : n \in ToolNames}

Environments ==
    {[CLOUDFLARE_ACCOUNT_ID |-> a, CLOUDFLARE_API_TOKEN |-> t,
      CLOUDFLARE_KV_NAMESPACE_ID |-> Some(<<"ns">>)] :
        a \in {None, Some(<<"acct">>)}, t \in {None, Some(<<"tok">>)}}

\* the smaller world of the concurrent specification
ConcRequests ==
    {[name |-> "kv_get", arguments |-> Some([EmptyArgs EXCEPT !.key = Some(<<"a">>)])],
     [name |-> "kv_put", arguments |-> Some([EmptyArgs EXCEPT !.key = Some(<<"b">>),
                                                             !.value = Some(<<"v">>)])],
     [name |-> "kv_delete", arguments |-> None],
     [name |-> "kv_list", arguments |-> Some(EmptyArgs)],
     [name |-> "kv_scan", arguments |-> Some(EmptyArgs)]}

ConcOutcomes ==
    {Rejected(ErrorObject("FetchError", Lit("request failed, reason: ECONNRESET"))),
     Fulfilled([ok |-> FALSE, statusText |-> Lit("Not Found"), body |-> TextBody(<<>>)]),
     Fulfilled([ok |-> TRUE, statusText |-> Lit("OK"), body |-> TextBody(<<"v">>)]),
     Fulfilled([ok |-> TRUE, statusText |-> Lit("OK"),
                body |-> BrokenBody(Lit("Premature close"))]),
     Fulfilled([ok |-> TRUE, statusText |-> Lit("OK"),
                body |-> JsonBody([success |-> FALSE,
                                   errors |-> Some(<<[kind |-> "string",
                                                      message |-> Lit("bad namespace"),
                                                      code |-> 0]>>),
                                   result |-> None])]),
     Fulfilled([ok |-> TRUE, statusText |-> Lit("OK"),
                body |-> JsonBody([success |-> TRUE, errors |-> Some(<<>>),
                                   result |-> Some(<<[name |-> <<"a">>,
                                                      expiration |-> None,
                                                      metadata |-> None]>>)])])}

ConcEnvironments ==
    {[CLOUDFLARE_ACCOUNT_ID |-> Some(<<"acct">>), CLOUDFLARE_API_TOKEN |-> Some(<<"tok">>),
      CLOUDFLARE_KV_NAMESPACE_ID |-> Some(<<"ns">>)]}

\* ------------------------------------------------------------ state machine
InitWith(slots, envs) ==
    /\ config \in {getConfig(e) : e \in envs}
    /\ pc = [c \in slots |-> "idle"]
    /\ request = [c \in slots |-> None]
    /\ sent = [c \in slots |-> <<>>]
    /\ net = [c \in slots |-> None]
    /\ response = [c \in slots |-> None]
    /\ accessed = [c \in slots |-> {}]
    /\ thrown = [c \in slots |-> None]
    /\ result = [c \in slots |-> <<>>]

Slots == DOMAIN pc

FreeSlot == CHOOSE c \in Slots : pc[c] = "idle" /\ \A d \in Slots : pc[d] = "idle" => c <= d

\* the handler of slot c runs step: to its next await, or to its end
ApplyStep(c, step) ==
    /\ pc' = [pc EXCEPT ![c] = step.next]
    /\ sent' = [sent EXCEPT ![c] =
                    IF step.fetch = None THEN @ ELSE Append(@, Transmit(step.fetch[1]))]
    /\ net' = [net EXCEPT ![c] = IF step.fetch = None THEN @ ELSE None]
    /\ accessed' = [accessed EXCEPT ![c] = @ \cup step.reads]
    /\ thrown' = [thrown EXCEPT ![c] =
                    IF step.completion.type = "throw" THEN Some(step.completion.value) ELSE @]
    /\ result' = [result EXCEPT ![c] =
                    IF step.completion.type = "none" THEN @
                    ELSE Append(@, HandlerSettle(step.completion))]

\* the transport hands a tools/call request to the handler
Invoke(req) ==
    /\ \E c \in Slots : pc[c] = "idle"
    /\ request' = [request EXCEPT ![FreeSlot] = Some(req)]
    /\ ApplyStep(FreeSlot, CallTool(req, config))
    /\ UNCHANGED <<config, response>>

\* the provider answers the request of slot c, or the network fails it; the
\* keys endpoint is the one that answers with a JSON document, the values
\* endpoints answer with the stored value
ProviderRespond(c, out) ==
    /\ pc[c] = "fetching"
    /\ net[c] = None
    /\ (out.kind = "fulfilled" /\ out.response.body.kind = "json")
            => request[c][1].name = "kv_list"
    /\ net' = [net EXCEPT ![c] = Some(out)]
    /\ UNCHANGED <<config, pc, request, sent, response, accessed, thrown, result>>

\* faulty variant: the response is kept in one place shared by all invocations
SettledFetchShared(c) ==
    net[CHOOSE d \in Slots :
            /\ pc[d] = "fetching" /\ net[d] # None
            /\ \A e \in Slots : (pc[e] = "fetching" /\ net[e] # None) => d <= e][1]

\* what await fetch(...) of slot c settles with
SettledFetch(c) == net[c][1]

\* the handler of slot c resumes from await fetch(...)
FetchSettle(c) ==
    /\ pc[c] = "fetching"
    /\ net[c] # None
    /\ response' = [response EXCEPT ![c] = Some(SettledFetch(c).response)]
    /\ ApplyStep(c, OnFetch(request[c][1], SettledFetch(c)))
    /\ UNCHANGED <<config, request>>

\* the handler of slot c resumes from await response.text() / response.json()
BodySettle(c) ==
    /\ pc[c] = "reading"
    /\ ApplyStep(c, OnBody(request[c][1], response[c][1]))
    /\ UNCHANGED <<config, request, response>>

\* the transport writes the settled result; the invocation is gone
Deliver(c) ==
    /\ pc[c] = "done"
    /\ pc' = [pc EXCEPT ![c] = "idle"]
    /\ request' = [request EXCEPT ![c] = None]
    /\ sent' = [sent EXCEPT ![c] = <<>>]
    /\ net' = [net EXCEPT ![c] = None]
    /\ response' = [response EXCEPT ![c] = None]
    /\ accessed' = [accessed EXCEPT ![c] = {}]
    /\ thrown' = [thrown EXCEPT ![c] = None]
    /\ result' = [result EXCEPT ![c] = <<>>]
    /\ UNCHANGED config

\* one invocation at a time, as the stdio transport delivers them
Init == InitWith({1}, Environments)

Next ==
    \/ \E req \in Requests : Invoke(req)
    \/ \E c \in Slots, out \in Outcomes : ProviderRespond(c, out)
    \/ \E c \in Slots : FetchSettle(c)
    \/ \E c \in Slots : BodySettle(c)
    \/ \E c \in Slots : Deliver(c)

Spec == Init /\ [][Next]_vars

\* up to MaxInFlight invocations in flight at once
InitConc == InitWith(1..MaxInFlight, ConcEnvironments)

NextConc ==
    \/ \E req \in ConcRequests : Invoke(req)
    \/ \E c \in Slots, out \in ConcOutcomes : ProviderRespond(c, out)
    \/ \E c \in Slots : FetchSettle(c)
    \/ \E c \in Slots : BodySettle(c)
    \/ \E c \in Slots : Deliver(c)

SpecConc == InitConc /\ [][NextConc]_vars

\* ------------------------------------------------------------ reading a state
InFlight(c) == pc[c] # "idle"
Done(c) == pc[c] = "done"
Req(c) == request[c][1]
HasArgs(c) == Req(c).arguments # None
Args(c) == Req(c).arguments[1]
Returned(c) == Len(result[c]) = 1 /\ result[c][1].state = "fulfilled"
Envelope(c) == result[c][1].value
IsError(c) == Envelope(c).toolResult.isError
Text(c) == Envelope(c).toolResult.content[1].text
HasResponse(c) == net[c] # None /\ net[c][1].kind = "fulfilled"
Resp(c) == net[c][1].response

StartsWith(text, pre) == Len(pre) <= Len(text) /\ SubSeq(text, 1, Len(pre)) = pre

Contains(text, sub) ==
    \E i \in 0..(Len(text) - Len(sub)) : SubSeq(text, i + 1, i + Len(sub)) = sub

RECURSIVE Before(_, _)
Before(s, ch) ==
    IF s = <<>> \/ Head(s) = ch THEN <<>> ELSE <<Head(s)>> \o Before(Tail(s), ch)

RECURSIVE After(_, _)
After(s, ch) ==
    IF s = <<>> THEN <<>> ELSE IF Head(s) = ch THEN Tail(s) ELSE After(Tail(s), ch)

PathOf(url) == Before(url, "?")
QueryOf(url) == After(url, "?")

ParamAt(q, n, i) == q[i] = n /\ i < Len(q) /\ q[i + 1] = "=" /\ (i = 1 \/ q[i - 1] = "&")
HasParam(q, n) == \E i \in 1..Len(q) : ParamAt(q, n, i)
ParamValue(q, n) ==
    LET i == CHOOSE j \in 1..Len(q) : ParamAt(q, n, j)
    IN Before(SubSeq(q, i + 2, Len(q)), "&")

FailPrefix(name) ==
    CASE name = "kv_get" -> Lit("Failed to get value: ")
      [] name = "kv_put" -> Lit("Failed to put value: ")
      [] name = "kv_delete" -> Lit("Failed to delete key: ")
      [] name = "kv_list" -> Lit("Failed to list keys: ")

\* ------------------------------------------------------------ claims

\* C1 as stated: every finished invocation has returned exactly one envelope,
\* and isError is false exactly when the tool is known, the HTTP response was
\* ok and, for kv_list, the parsed body's success flag is true.
C1_IsErrorIffOkAndSuccess ==
    \A c \in Slots :
        /\ ~Done(c) => result[c] = <<>>
        /\ Done(c) =>
            /\ Returned(c)
            /\ (IsError(c) = FALSE) <=>
                    /\ KnownTool(Req(c).name)
                    /\ HasResponse(c)
                    /\ Resp(c).ok
                    /\ Req(c).name = "kv_list" =>
                            (Resp(c).body.kind = "json" /\ Resp(c).body.data.success)

\* C1 amended: every finished invocation has returned exactly one envelope, and
\* isError is false exactly when the tool is known, the HTTP response was ok,
\* the body the handler reads (kv_get: text, kv_list: JSON) was read without a
\* fault and, for kv_list, the parsed body has success true and a result array.
C1_IsErrorIffOkReadAndSuccess ==
    \A c \in Slots :
        /\ ~Done(c) => result[c] = <<>>
        /\ Done(c) =>
            /\ Returned(c)
            /\ (IsError(c) = FALSE) <=>
                    /\ KnownTool(Req(c).name)
                    /\ HasResponse(c)
                    /\ Resp(c).ok
                    /\ Req(c).name = "kv_get" => Resp(c).body.kind # "broken"
                    /\ Req(c).name = "kv_list" =>
                            /\ Resp(c).body.kind = "json"
                            /\ Resp(c).body.data.success
                            /\ Resp(c).body.data.result # None

\* C1 witness: a kv_get whose response was ok but whose body could not be read
\* has finished with an error envelope.
C1_Witness ==
    \E c \in Slots :
        /\ Done(c) /\ Req(c).name = "kv_get" /\ HasResponse(c)
        /\ Resp(c).ok /\ Resp(c).body.kind = "broken"
        /\ Returned(c) /\ IsError(c)

\* C2: an exception raised while handling an invocation ends the invocation
\* with one fulfilled result, an envelope with isError true whose text is
\* "Error: " and the exception's message (its string form for a non-Error);
\* the handler's promise is never rejected.
C2_ExceptionsBecomeEnvelopes ==
    \A c \in Slots :
        /\ \A i \in 1..Len(result[c]) : result[c][i].state = "fulfilled"
        /\ thrown[c] # None =>
            /\ Done(c)
            /\ result[c] =
                <<[state |-> "fulfilled",
                   value |-> TextEnvelope(
                       Lit("Error: ")
                           \o (IF thrown[c][1].kind = "Error"
                               THEN thrown[c][1].message
                               ELSE thrown[c][1].value),
                       TRUE)]>>

\* C2 witness: a kv_list whose provider body had success false and no errors
\* array faulted while building the error text, and finished.
C2_Witness ==
    \E c \in Slots :
        /\ Done(c) /\ Req(c).name = "kv_list" /\ HasResponse(c) /\ Resp(c).ok
        /\ Resp(c).body.kind = "json" /\ ~Resp(c).body.data.success
        /\ Resp(c).body.data.errors = None
        /\ thrown[c] # None /\ thrown[c][1].name = "TypeError"
        /\ Returned(c) /\ IsError(c)

\* C3: an invocation of a name outside the four tools has finished with the
\* envelope "Unknown tool: <name>", isError true, whatever its arguments, and
\* has issued no HTTP request.
C3_UnknownTool ==
    \A c \in Slots :
        (InFlight(c) /\ ~KnownTool(Req(c).name)) =>
            /\ Done(c)
            /\ result[c] =
                <<[state |-> "fulfilled",
                   value |-> TextEnvelope(<<"Unknown tool: ", Req(c).name>>, TRUE)]>>
            /\ sent[c] = <<>>

\* C3 witness: an unknown tool invoked without arguments has finished.
C3_Witness ==
    \E c \in Slots :
        /\ Done(c) /\ Req(c).name = "kv_scan" /\ ~HasArgs(c) /\ Returned(c)

\* C4: an invocation of a known tool whose arguments could be destructured has
\* issued exactly one HTTP request, at every moment from its dispatch to its
\* end and whatever the outcome; the request has the operation's method and
\* path, the value as body for put, and the bearer credential of the config.
C4_ExactlyOneRequest ==
    \A c \in Slots :
        (InFlight(c) /\ KnownTool(Req(c).name) /\ HasArgs(c)) =>
            /\ Len(sent[c]) = 1
            /\ sent[c][1].headers.Authorization
                    = Lit("Bearer ") \o TemplateStr(config.apiToken)
            /\ sent[c][1].method =
                    (CASE Req(c).name = "kv_put" -> "PUT"
                       [] Req(c).name = "kv_delete" -> "DELETE"
                       [] OTHER -> "GET")
            /\ PathOf(sent[c][1].url) =
                    NamespaceUrl(config)
                        \o (IF Req(c).name = "kv_list" THEN Lit("/keys")
                            ELSE Lit("/values/") \o TemplateStr(Args(c).key))
            /\ sent[c][1].body = (IF Req(c).name = "kv_put" THEN Args(c).value ELSE None)

\* C4 witness: a kv_put whose fetch was rejected by the network has finished
\* having issued one request.
C4_Witness ==
    \E c \in Slots :
        /\ Done(c) /\ Req(c).name = "kv_put" /\ HasArgs(c)
        /\ net[c] # None /\ net[c][1].kind = "rejected"
        /\ Len(sent[c]) = 1 /\ sent[c][1].method = "PUT"

\* the result of an invocation run alone: the handler's steps composed
\* directly on the request, the config and the settlement of its own fetch
RunAlone(req, cfg, settled) ==
    LET first == CallTool(req, cfg) IN
    IF first.next = "done" THEN HandlerSettle(first.completion)
    ELSE LET second == OnFetch(req, settled[1]) IN
         IF second.next = "done" THEN HandlerSettle(second.completion)
         ELSE HandlerSettle(OnBody(req, settled[1].response).completion)

\* C5: with several invocations in flight and their responses arriving in any
\* order, a finished invocation's result is the one its own request and its
\* own HTTP response give when run alone, and the config is still the one
\* read at startup.
C5_Isolation ==
    /\ config \in {getConfig(e) : e \in ConcEnvironments}
    /\ \A c \in Slots :
        Done(c) => result[c] = <<RunAlone(Req(c), config, net[c])>>

\* C5 witness: two invocations with different requests and different
\* responses are in flight together; the second has finished with a success
\* envelope while the first is still waiting for its response body.
C5_Witness ==
    /\ Cardinality(Slots) >= 2
    /\ pc[1] = "reading" /\ Done(2)
    /\ request[1] # request[2]
    /\ HasResponse(1) /\ HasResponse(2) /\ net[1] # net[2]
    /\ Returned(2) /\ ~IsError(2)

\* C6: the PUT request on the wire carries expiration_ttl=<n> in its query
\* exactly when expirationTtl was supplied.
C6_TtlTransmitted ==
    \A c \in Slots :
        (InFlight(c) /\ Req(c).name = "kv_put" /\ HasArgs(c)) =>
            /\ Len(sent[c]) = 1
            /\ HasParam(QueryOf(sent[c][1].url), "expiration_ttl")
                    <=> Args(c).expirationTtl # None
            /\ Args(c).expirationTtl # None =>
                    ParamValue(QueryOf(sent[c][1].url), "expiration_ttl")
                        = NumToStr(Args(c).expirationTtl[1])

\* C7: a kv_list invoked with an arguments object (possibly empty) sends one
\* request whose query holds prefix=<p> exactly when prefix was supplied and
\* limit=<n> exactly when limit was supplied, for every supplied value; with
\* neither supplied the query is empty.
C7_ListQuery ==
    \A c \in Slots :
        (InFlight(c) /\ Req(c).name = "kv_list" /\ HasArgs(c)) =>
            LET q == QueryOf(sent[c][1].url) IN
            /\ Len(sent[c]) = 1
            /\ HasParam(q, "prefix") <=> Args(c).prefix # None
            /\ HasParam(q, "limit") <=> Args(c).limit # None
            /\ Args(c).prefix # None =>
                    ParamValue(q, "prefix") = FormEncodeStr(Args(c).prefix[1])
            /\ Args(c).limit # None =>
                    ParamValue(q, "limit") = NumToStr(Args(c).limit[1])
            /\ (Args(c).prefix = None /\ Args(c).limit = None) => q = <<>>

\* C8: a kv_list whose response was ok and whose parsed body has success false
\* ends with isError true and the text "Failed to list keys: " followed by the
\* error entries, so that every provider error message appears in the text;
\* the result array is not read.
C8_ListProviderErrors ==
    \A c \in Slots :
        (/\ Done(c) /\ Req(c).name = "kv_list" /\ HasResponse(c) /\ Resp(c).ok
         /\ Resp(c).body.kind = "json" /\ ~Resp(c).body.data.success
         /\ Resp(c).body.data.errors # None) =>
            /\ Returned(c)
            /\ IsError(c)
            /\ StartsWith(Text(c), Lit("Failed to list keys: "))
            /\ \A i \in 1..Len(Resp(c).body.data.errors[1]) :
                    Contains(Text(c), Resp(c).body.data.errors[1][i].message)
            /\ "result" \notin accessed[c]

\* C9: an invocation of one of the four tools whose HTTP response was not ok
\* ends with isError true and one text item, the operation's failure prefix
\* followed by the status text; the body is not read and nothing is thrown.
C9_HttpFailure ==
    \A c \in Slots :
        (Done(c) /\ KnownTool(Req(c).name) /\ HasResponse(c) /\ ~Resp(c).ok) =>
            /\ result[c] =
                <<[state |-> "fulfilled",
                   value |-> TextEnvelope(FailPrefix(Req(c).name) \o Resp(c).statusText,
                                          TRUE)]>>
            /\ "body" \notin accessed[c]
            /\ thrown[c] = None

\* C9 witness: a kv_list answered 404 Not Found has finished.
C9_Witness ==
    \E c \in Slots :
        /\ Done(c) /\ Req(c).name = "kv_list" /\ HasResponse(c)
        /\ ~Resp(c).ok /\ Resp(c).statusText = Lit("Not Found")
        /\ Returned(c) /\ IsError(c)

====
